---- MODULE Spec2Model ----
(***************************************************************************)
(* A model of dd_library_autopilot.py: the crawl frontier (crawl_queue     *)
(* table), the posts/links tables, the run record, and the three phases    *)
(* of main() (flair scan, hub discovery, queue crawl) with the time budget *)
(* and the exception paths.                                                *)
(*                                                                         *)
(* A URL is a sequence of string tokens (scheme, host, path marker, id);   *)
(* the string functions of the source act on the tokens.  The database is  *)
(* held twice: db is what the open connection sees (uncommitted writes     *)
(* included), disk is what con.commit() has made durable.                  *)
(***************************************************************************)
EXTENDS Integers, Sequences, FiniteSets, TLC

\* ------------------------------------------------------------ constants
MAX_CRAWL_DEPTH == 3
HUB_REPLY_DEPTH == 1
HUB_TOP_LEVEL_COMMENTS == 75
HUB_MAX_REPLIES_PER_TOP == 20
ERR_TRUNC == 500

\* 50 and 2500 in the source; scaled down so that a batch boundary and a
\* duplicate streak happen in a small world.
MAX_QUEUE_BATCH == 2
STOP_DUP_STREAK == 2

\* bounds of the model
MaxRuns == 2
MaxFaults == 2
MaxCrashes == 1
MaxUrlLen == 4
MaxApply == 2

NoId == ""
NoErr == -1

\* ------------------------------------------------------------ URL functions
Schemes == {"http://", "https://"}

RECURSIVE LStrip(_)
LStrip(u) == IF u # <<>> /\ Head(u) = " " THEN LStrip(Tail(u)) ELSE u

RECURSIVE RStrip(_)
RStrip(u) ==
    IF u # <<>> /\ u[Len(u)] = " " THEN RStrip(SubSeq(u, 1, Len(u) - 1)) ELSE u

Strip(u) == RStrip(LStrip(u))

StartsWith(u, tok) == u # <<>> /\ u[1] = tok

\* "reddit.com" in u : the tokens that contain the text reddit.com
HasRedditCom(tok) == tok \in {"reddit.com", "www.reddit.com", "old.reddit.com"}
HasReddIt(tok) == tok = "redd.it"

ContainsRedditCom(u) == \E i \in DOMAIN u : HasRedditCom(u[i])

ReplaceOld(u) ==
    [i \in DOMAIN u |-> IF u[i] = "old.reddit.com" THEN "www.reddit.com" ELSE u[i]]

\* variant: the scheme is prefixed without the test "not u.startswith('https://')"
normalize_reddit_urlAlwaysScheme(u) ==
    LET u0 == Strip(u)
        u1 == IF StartsWith(u0, "http://") THEN <<"https://">> \o Tail(u0) ELSE u0
        u2 == IF \E i \in DOMAIN u1 : u1[i] = "old.reddit.com" THEN ReplaceOld(u1) ELSE u1
    IN  IF ContainsRedditCom(u2) THEN <<"https://">> \o u2 ELSE u2

normalize_reddit_url(u) ==
    LET u0 == Strip(u)
        u1 == IF StartsWith(u0, "http://") THEN <<"https://">> \o Tail(u0) ELSE u0
        u2 == IF \E i \in DOMAIN u1 : u1[i] = "old.reddit.com" THEN ReplaceOld(u1) ELSE u1
        u3 == IF ContainsRedditCom(u2) /\ ~StartsWith(u2, "https://")
              THEN <<"https://">> \o u2 ELSE u2
    IN  u3

\* urlparse: netloc is the host after a scheme, path is what follows the host
Netloc(u) == IF Len(u) >= 2 /\ u[1] \in Schemes THEN u[2] ELSE ""
PathOf(u) == IF Len(u) >= 2 /\ u[1] \in Schemes THEN SubSeq(u, 3, Len(u)) ELSE u

is_reddit_submission_url(u) ==
    LET host_ok == HasRedditCom(Netloc(u)) \/ HasReddIt(Netloc(u))
        p == PathOf(u)
        path_ok == \/ \E i \in DOMAIN p : p[i] = "/comments/"
                   \/ \E i \in 1..(Len(p) - 1) : p[i] = "redd.it" /\ p[i + 1] = "/"
    IN  host_ok /\ path_ok

\* the tokens that match [a-z0-9]{5,8}
IdTokens == {"aaaa1", "aaaa2", "aaaa3", "aaaa4", "aaaa5", "aaaa6", "hubb1"}

submission_id_from_url(u) ==
    LET m1 == {i \in 1..(Len(u) - 1) : u[i] = "/comments/" /\ u[i + 1] \in IdTokens}
        m2 == {i \in 1..(Len(u) - 2) :
                 u[i] = "redd.it" /\ u[i + 1] = "/" /\ u[i + 2] \in IdTokens}
        Min(S) == CHOOSE x \in S : \A y \in S : x <= y
    IN  IF m1 # {} THEN u[Min(m1) + 1]
        ELSE IF m2 # {} THEN u[Min(m2) + 2]
        ELSE NoId

\* key = sid if sid else nu ; an id key is the one-token sequence of the id
KeyOf(nu) ==
    LET sid == submission_id_from_url(nu) IN IF sid # NoId THEN <<sid>> ELSE nu

\* re.fullmatch(r"[a-z0-9]{5,8}", key)
IsIdKey(key) == Len(key) = 1 /\ key[1] \in IdTokens


\* ------------------------------------------------------------ the remote source
Long(id) == <<"https://", "www.reddit.com", "/comments/", id>>
OldLong(id) == <<"http://", "old.reddit.com", "/comments/", id>>
Short(id) == <<"https://", "redd.it", "/", id>>
Ext == <<"https://", "example.com", "/", "page">>

\* the URLs of this world in the order Python's sorted() gives their strings
UrlOrder ==
    << OldLong("aaaa2"), OldLong("aaaa3"), Ext, Short("aaaa4"),
       Long("aaaa1"), Long("aaaa2"), Long("aaaa3"), Long("aaaa4"),
       Long("aaaa5"), Long("aaaa6") >>

UrlRank(u) == CHOOSE i \in DOMAIN UrlOrder : UrlOrder[i] = u

\* sorted(S) for a set of URLs
RECURSIVE SortUrls(_)
SortUrls(S) ==
    IF S = {} THEN <<>>
    ELSE LET m == CHOOSE u \in S : \A v \in S : UrlRank(u) <= UrlRank(v)
         IN  <<m>> \o SortUrls(S \ {m})

\* submissions the source can return; aaaa5 is linked to but cannot be fetched
Remote == {"aaaa1", "aaaa2", "aaaa3", "aaaa6", "hubb1"}

\* extract_urls over title, selftext and url of a submission
BodyUrls(s) ==
    CASE s = "aaaa1" -> {OldLong("aaaa2"), Ext}
      [] s = "aaaa2" -> {Long("aaaa3")}
      [] s = "aaaa3" -> {Long("aaaa1")}
      [] OTHER -> {}

\* top-level comments in "best" order: the URLs of the body, the URLs of each
\* reply, and the number of replies that can be read before the reading of
\* the replies raises (all of them when it does not raise)
CommentsOf(s) ==
    IF s = "hubb1"
    THEN << [body |-> {OldLong("aaaa3")}, replies |-> << {Ext} >>, readable |-> 0],
            [body |-> {Short("aaaa4"), Ext},
             replies |-> << {Long("aaaa5")}, {Long("aaaa6")} >>, readable |-> 1] >>
    ELSE <<>>

\* search results per flair label (newest first) and per hub query
FlairResults == << <<"aaaa1", "aaaa6", "hubb1">>, <<>> >>
HubResults == << <<"hubb1">>, <<"aaaa2">> >>

Permalink(s) == Long(s)

\* length of str(e) for a failed fetch and for a failed store call
FetchErrLen == 501
StoreErrLen == 20
Truncate(n) == IF n > ERR_TRUNC THEN ERR_TRUNC ELSE n

\* ------------------------------------------------------------ tables
HasPost(posts, id) == \E i \in DOMAIN posts : posts[i].id = id
HasKey(queue, key) == \E i \in DOMAIN queue : queue[i].key = key
HasLink(links, pid, url) == \E i \in DOMAIN links : links[i] = <<pid, url>>
RowOf(queue, key) == queue[CHOOSE i \in DOMAIN queue : queue[i].key = key]

\* variant: INSERT OR REPLACE INTO posts
insert_postReplace(posts, row) ==
    IF HasPost(posts, row.id)
    THEN [i \in DOMAIN posts |-> IF posts[i].id = row.id THEN row ELSE posts[i]]
    ELSE Append(posts, row)

\* INSERT OR IGNORE INTO posts
insert_post(posts, row) ==
    IF HasPost(posts, row.id) THEN posts ELSE Append(posts, row)

\* cur.rowcount == 1
insert_post_rowcount(posts, row) == IF HasPost(posts, row.id) THEN 0 ELSE 1

\* variant: a plain INSERT INTO links
upsert_linkAlways(links, pid, url) == Append(links, <<pid, url>>)

\* INSERT OR IGNORE INTO links
upsert_link(links, pid, url) ==
    IF HasLink(links, pid, url) THEN links ELSE Append(links, <<pid, url>>)

QueueRow(key, url, depth, is_hub, max_comment_depth) ==
    [key |-> key, url |-> url, depth |-> depth, status |-> "queued",
     last_error |-> NoErr, is_hub |-> is_hub, max_comment_depth |-> max_comment_depth]

\* variant: the hub flag and the reply depth are left to the column defaults
queue_addDefaults(queue, key, url, depth, is_hub, max_comment_depth) ==
    IF HasKey(queue, key) THEN queue
    ELSE Append(queue, QueueRow(key, url, depth, 0, 0))

\* variant: INSERT OR REPLACE INTO crawl_queue
queue_addReplace(queue, key, url, depth, is_hub, max_comment_depth) ==
    IF HasKey(queue, key)
    THEN [i \in DOMAIN queue |->
            IF queue[i].key = key
            THEN QueueRow(key, url, depth, is_hub, max_comment_depth) ELSE queue[i]]
    ELSE Append(queue, QueueRow(key, url, depth, is_hub, max_comment_depth))

\* INSERT OR IGNORE INTO crawl_queue ... 'queued'
queue_add(queue, key, url, depth, is_hub, max_comment_depth) ==
    IF HasKey(queue, key) THEN queue
    ELSE Append(queue, QueueRow(key, url, depth, is_hub, max_comment_depth))

\* UPDATE crawl_queue SET status=?, last_error=? WHERE key=?
queue_mark(queue, key, status, err) ==
    [i \in DOMAIN queue |->
        IF queue[i].key = key
        THEN [queue[i] EXCEPT !.status = status, !.last_error = err]
        ELSE queue[i]]

Take(s, n) == IF Len(s) <= n THEN s ELSE SubSeq(s, 1, n)

Reverse(s) == [i \in DOMAIN s |-> s[Len(s) + 1 - i]]

\* variant: the SELECT without "WHERE status='queued'"
queue_pop_batchAnyStatus(queue, batch_size) == Take(queue, batch_size)

\* variant: only the rows of depth 0 are popped
queue_pop_batchDepth0(queue, batch_size) ==
    Take(SelectSeq(queue, LAMBDA r : r.status = "queued" /\ r.depth = 0), batch_size)

\* variant: ORDER BY added_at_utc DESC
queue_pop_batchNewest(queue, batch_size) ==
    Take(Reverse(SelectSeq(queue, LAMBDA r : r.status = "queued")), batch_size)

\* SELECT ... WHERE status='queued' ORDER BY added_at_utc ASC LIMIT ?
queue_pop_batch(queue, batch_size) ==
    Take(SelectSeq(queue, LAMBDA r : r.status = "queued"), batch_size)

\* variant: the UPDATE without "WHERE is_hub=1"
queue_reset_hubsAll(queue) ==
    [i \in DOMAIN queue |-> [queue[i] EXCEPT !.status = "queued"]]

\* UPDATE crawl_queue SET status='queued' WHERE is_hub=1
queue_reset_hubs(queue) ==
    [i \in DOMAIN queue |->
        IF queue[i].is_hub = 1 THEN [queue[i] EXCEPT !.status = "queued"] ELSE queue[i]]

NewRun == [posts_inserted |-> 0, hubs_queued |-> 0, queue_done |-> 0,
           errors |-> 0, ended |-> FALSE]

\* The runs table is held as the row of the current run: every statement on
\* it is "WHERE run_id=?" with the id begin_run generated, so the rows of
\* earlier runs are never read or written again.
\* UPDATE runs SET posts_inserted=?, ... WHERE run_id=?
update_run_stats(run, pi, hq, qd, er) ==
    [run EXCEPT !.posts_inserted = pi, !.hubs_queued = hq, !.queue_done = qd,
                !.errors = er]

\* UPDATE runs SET ended_at_utc=? WHERE run_id=?
end_run(run) == [run EXCEPT !.ended = TRUE]

\* ------------------------------------------------------------ store and discover
\* variant: the test lets the bound itself through
CanDiscoverAtBound(depth) == depth <= MAX_CRAWL_DEPTH

\* the depth test of store_submission_and_discover
CanDiscover(depth) == depth < MAX_CRAWL_DEPTH

\* one record of the enqueue log: where the call came from, the depth of its
\* source, whether the key was there already and, if so, whether the call's
\* depth or hub flag differ from the stored row's
EnqEntry(queue, via, srcDepth, key, depth, is_hub) ==
    [via |-> via, srcDepth |-> srcDepth, dup |-> HasKey(queue, key),
     diff |-> HasKey(queue, key) /\
              (RowOf(queue, key).depth # depth \/ RowOf(queue, key).is_hub # is_hub)]

\* the for loop of store_submission_and_discover over urls[i..k]
\* the body of that loop for one URL u, with nu and key as the code computes
\* them and enq the outcome of its test
\* variant: the discovered link is enqueued at the depth of its source
DiscoverOneSameDepth(st, post_id, u, nu, key, enq, depth) ==
    [links |-> upsert_link(st.links, post_id, u),
     queue |-> IF enq THEN queue_add(st.queue, key, nu, depth, 0, 0) ELSE st.queue,
     log |-> IF enq THEN st.log \cup {EnqEntry(st.queue, "body", depth, key, depth, 0)}
             ELSE st.log]

DiscoverOne(st, post_id, u, nu, key, enq, depth) ==
    [links |-> upsert_link(st.links, post_id, u),
     queue |-> IF enq THEN queue_add(st.queue, key, nu, depth + 1, 0, 0) ELSE st.queue,
     log |-> IF enq THEN st.log \cup {EnqEntry(st.queue, "body", depth, key, depth + 1, 0)}
             ELSE st.log]

RECURSIVE DiscoverLoop(_, _, _, _, _, _)
DiscoverLoop(st, post_id, urls, depth, i, k) ==
    IF i > k THEN st
    ELSE DiscoverLoop(
             DiscoverOne(st, post_id, urls[i], normalize_reddit_url(urls[i]),
                         KeyOf(normalize_reddit_url(urls[i])),
                         CanDiscover(depth) /\ is_reddit_submission_url(urls[i]), depth),
             post_id, urls, depth, i + 1, k)

UrlsOf(s) == SortUrls(BodyUrls(s))

\* store_submission_and_discover run up to and including its k-th URL
\* (k = Len(UrlsOf(s)) is the whole call); now is the retrieval instant
StoreResult(d, row, st) ==
    [db |-> [d EXCEPT !.posts = insert_post(d.posts, row),
                      !.links = st.links, !.queue = st.queue],
     inserted |-> insert_post_rowcount(d.posts, row) = 1,
     log |-> st.log]

store_submission_and_discover(d, s, depth, k, now) ==
    StoreResult(d, [id |-> s, retrieved_at |-> now],
                DiscoverLoop([links |-> d.links, queue |-> d.queue, log |-> {}],
                             s, UrlsOf(s), depth, 1, k))

\* ------------------------------------------------------------ hub expansion
SubmissionLinks(S) == {normalize_reddit_url(u) : u \in {v \in S : is_reddit_submission_url(v)}}

RECURSIVE UnionSeq(_)
UnionSeq(ss) == IF ss = <<>> THEN {} ELSE Head(ss) \cup UnionSeq(Tail(ss))

\* variant: a failure while the replies are read discards what was read of them
CommentLinksAllOrNothing(c, reply_depth, max_replies_per_top) ==
    SubmissionLinks(c.body) \cup
    (IF reply_depth >= 1 /\ c.readable >= Len(Take(c.replies, max_replies_per_top))
     THEN SubmissionLinks(UnionSeq(Take(c.replies, max_replies_per_top)))
     ELSE {})

\* the links one top-level comment contributes: those of its body and, inside
\* "try ... except Exception: pass", those of the replies read before a failure
CommentLinks(c, reply_depth, max_replies_per_top) ==
    SubmissionLinks(c.body) \cup
    (IF reply_depth >= 1
     THEN SubmissionLinks(UnionSeq(Take(Take(c.replies, max_replies_per_top), c.readable)))
     ELSE {})

RECURSIVE AllCommentLinks(_, _, _)
AllCommentLinks(cs, reply_depth, max_replies_per_top) ==
    IF cs = <<>> THEN {}
    ELSE CommentLinks(Head(cs), reply_depth, max_replies_per_top) \cup
         AllCommentLinks(Tail(cs), reply_depth, max_replies_per_top)

extract_reddit_links_from_best_comments(s, top_n, reply_depth, max_replies_per_top) ==
    SortUrls(AllCommentLinks(Take(CommentsOf(s), top_n), reply_depth, max_replies_per_top))

\* the hub test of crawl_queue
ExpandsHub(is_hub, depth) == is_hub = 1 /\ depth <= MAX_CRAWL_DEPTH

\* for nu in best_links: queue_add(...)
ExpandOne(st, nu, qkey, depth) ==
    [queue |-> queue_add(st.queue, qkey, nu, depth + 1, 0, 0),
     log |-> st.log \cup {EnqEntry(st.queue, "comment", depth, qkey, depth + 1, 0)}]

RECURSIVE ExpandLoop(_, _, _, _)
ExpandLoop(st, links, depth, i) ==
    IF i > Len(links) THEN st
    ELSE ExpandLoop(ExpandOne(st, links[i], KeyOf(links[i]), depth), links, depth, i + 1)


\* ------------------------------------------------------------ state
VARIABLES
    pc,             \* where main() stands
    runNo,          \* number of the current run (its run_id)
    recrawl,        \* args.recrawl_hubs
    hasDeadline,    \* deadline_ts is not None
    expired,        \* time.time() >= deadline_ts
    db,             \* the tables as the open connection sees them
    disk,           \* the tables as committed
    flairIdx, resIdx, dup_streak, inserted_count,   \* ingest_dd_flair_posts
    hubIdx, hubRes, added,                          \* discover_hub_posts
    batch, done, crawl_errors,                      \* crawl_queue
    posts_inserted, hubs_queued, queue_done, errors,\* main
    faults,         \* injected failures so far
    enqLog,         \* history of the run: the queue_add calls made
    insLog,         \* history of the run: <<row existed, inserted>> of every insert_post
    fetchLog,       \* history of the run: the status each crawled item had when fetched
    crawlG,         \* history of the current crawl_queue call
    crashes,        \* number of times the process was killed
    urlIn,          \* a URL text handed to the URL functions
    urlOut,         \* the results of normalize_reddit_url applied to it, in turn
    urlQ,           \* a queue the renderings of one submission are added to
    urlSeen         \* the renderings handed to the enqueue paths so far

argVars == <<runNo, recrawl, hasDeadline>>
flairVars == <<flairIdx, resIdx, dup_streak, inserted_count>>
hubVars == <<hubIdx, hubRes, added>>
crawlVars == <<batch, done, crawl_errors, crawlG>>
mainVars == <<posts_inserted, hubs_queued, queue_done, errors>>
logVars == <<enqLog, insLog, fetchLog>>
urlVars == <<urlIn, urlOut, urlQ, urlSeen>>
sideVars == <<crashes, urlVars>>
progVars == <<pc, argVars, expired, db, disk, flairVars, hubVars, crawlVars, mainVars,
              faults, logVars, crashes>>
vars == <<pc, argVars, expired, db, disk, flairVars, hubVars, crawlVars, mainVars,
          faults, logVars, sideVars>>

EmptyDb == [posts |-> <<>>, links |-> <<>>, queue |-> <<>>, run |-> NewRun]
NoCrawl == [q0 |-> <<>>, first |-> "none", pops |-> 0, fetched |-> 0, stop |-> "none"]

\* the program before its first run, on a fresh database
ProgInit ==
    /\ pc = "idle"
    /\ runNo = 0 /\ recrawl = FALSE /\ hasDeadline = FALSE /\ expired = FALSE
    /\ db = EmptyDb /\ disk = EmptyDb
    /\ flairIdx = 1 /\ resIdx = 1 /\ dup_streak = 0 /\ inserted_count = 0
    /\ hubIdx = 1 /\ hubRes = 1 /\ added = 0
    /\ batch = <<>> /\ done = 0 /\ crawl_errors = 0
    /\ posts_inserted = 0 /\ hubs_queued = 0 /\ queue_done = 0 /\ errors = 0
    /\ faults = 0
    /\ enqLog = {} /\ insLog = {} /\ fetchLog = {}
    /\ crawlG = NoCrawl
    /\ crashes = 0

Init ==
    /\ ProgInit
    /\ urlIn = <<>> /\ urlOut = <<>> /\ urlQ = <<>> /\ urlSeen = {}

\* the deadline instant has passed
PastDeadline == hasDeadline /\ expired

\* variant: the test never fires
deadline_reachedNever == FALSE

\* def deadline_reached(deadline_ts)
deadline_reached == hasDeadline /\ expired

Exited == pc \in {"exit0", "exit1", "abort"}
Crashed == pc = "crashed"
CanFail == faults < MaxFaults

\* time passes the deadline while a run is under way
Tick ==
    /\ hasDeadline /\ ~expired
    /\ pc \notin {"idle", "exit0", "exit1", "abort", "crashed"}
    /\ expired' = TRUE
    /\ UNCHANGED <<pc, argVars, db, disk, flairVars, hubVars, crawlVars, mainVars,
                   faults, logVars>>
    /\ UNCHANGED sideVars

\* main() up to the try: parse arguments, begin_run (with its commit), zero
\* the counters.  A process that ended left nothing uncommitted behind.
BeginRun ==
    /\ pc = "idle" \/ Exited \/ Crashed
    /\ runNo < MaxRuns
    /\ \E rc \in BOOLEAN, hd \in BOOLEAN :
          /\ recrawl' = rc
          /\ hasDeadline' = hd
    /\ runNo' = runNo + 1
    /\ expired' = FALSE
    /\ db' = [disk EXCEPT !.run = NewRun]
    /\ disk' = db'
    /\ flairIdx' = 1 /\ resIdx' = 1 /\ dup_streak' = 0 /\ inserted_count' = 0
    /\ hubIdx' = 1 /\ hubRes' = 1 /\ added' = 0
    /\ batch' = <<>> /\ done' = 0 /\ crawl_errors' = 0 /\ crawlG' = NoCrawl
    /\ posts_inserted' = 0 /\ hubs_queued' = 0 /\ queue_done' = 0 /\ errors' = 0
    /\ enqLog' = {} /\ insLog' = {} /\ fetchLog' = {}
    /\ pc' = "recrawl"
    /\ UNCHANGED faults
    /\ UNCHANGED sideVars

\* if args.recrawl_hubs: queue_reset_hubs(con, logger)
ResetHubs ==
    /\ pc = "recrawl"
    /\ db' = IF recrawl THEN [db EXCEPT !.queue = queue_reset_hubs(@)] ELSE db
    /\ disk' = db'
    /\ pc' = "flair"
    /\ UNCHANGED <<argVars, expired, flairVars, hubVars, crawlVars, mainVars,
                   faults, logVars>>
    /\ UNCHANGED sideVars

\* queue_reset_hubs raises: at the UPDATE (nothing written) or at its commit
\* (the reset stays in the open transaction)
ResetHubsFail ==
    /\ pc = "recrawl" /\ recrawl /\ CanFail
    /\ \E at \in {"execute", "commit"} :
          db' = IF at = "commit" THEN [db EXCEPT !.queue = queue_reset_hubs(@)] ELSE db
    /\ faults' = faults + 1
    /\ pc' = "fatal"
    /\ UNCHANGED <<argVars, expired, disk, flairVars, hubVars, crawlVars, mainVars,
                   logVars>>
    /\ UNCHANGED sideVars

\* ------------------------------------------------------------ phase A
\* for flair in DD_FLAIRS: the deadline test, then the search of the label;
\* after the last label, and on break, the function returns inserted_count
\* and main assigns posts_inserted
FlairLabel ==
    /\ pc = "flair"
    /\ IF flairIdx > Len(FlairResults) \/ deadline_reached
       THEN /\ posts_inserted' = inserted_count
            /\ pc' = "afterFlair"
            /\ UNCHANGED <<resIdx, dup_streak>>
       ELSE /\ dup_streak' = 0
            /\ resIdx' = 1
            /\ pc' = "flairRes"
            /\ UNCHANGED posts_inserted
    /\ UNCHANGED <<argVars, expired, db, disk, flairIdx, inserted_count, hubVars,
                   crawlVars, hubs_queued, queue_done, errors, faults, logVars>>
    /\ UNCHANGED sideVars

\* a result stored by the flair scan: r is what store_submission_and_discover
\* gave, streak the duplicate streak after it
FlairStored(s, r, streak) ==
    /\ db' = r.db
    /\ disk' = r.db
    /\ inserted_count' = IF r.inserted THEN inserted_count + 1 ELSE inserted_count
    /\ dup_streak' = streak
    /\ enqLog' = enqLog \cup r.log
    /\ insLog' = insLog \cup {<<HasPost(db.posts, s), r.inserted>>}
    /\ IF streak >= STOP_DUP_STREAK
       THEN /\ flairIdx' = flairIdx + 1
            /\ pc' = "flair"
            /\ UNCHANGED resIdx
       ELSE /\ resIdx' = resIdx + 1
            /\ UNCHANGED <<flairIdx, pc>>
    /\ UNCHANGED <<posts_inserted, fetchLog>>

\* variant: an inserted post does not reset the streak
StreakAfterNoReset(r) == dup_streak + 1

StreakAfter(r) == IF r.inserted THEN 0 ELSE dup_streak + 1

FlairStore(s, r) == FlairStored(s, r, StreakAfter(r))

\* one pass of the inner loop of ingest_dd_flair_posts
FlairItem ==
    /\ pc = "flairRes"
    /\ IF resIdx > Len(FlairResults[flairIdx])
       THEN \* the result stream ends: next label
            /\ flairIdx' = flairIdx + 1
            /\ pc' = "flair"
            /\ UNCHANGED <<db, disk, resIdx, dup_streak, inserted_count,
                           posts_inserted, logVars>>
       ELSE IF deadline_reached
       THEN \* return inserted_count
            /\ posts_inserted' = inserted_count
            /\ pc' = "afterFlair"
            /\ UNCHANGED <<db, disk, flairIdx, resIdx, dup_streak, inserted_count,
                           logVars>>
       ELSE FlairStore(FlairResults[flairIdx][resIdx],
                       store_submission_and_discover(
                           db, FlairResults[flairIdx][resIdx], 0,
                           Len(UrlsOf(FlairResults[flairIdx][resIdx])), runNo))
    /\ UNCHANGED <<argVars, expired, hubVars, crawlVars, hubs_queued, queue_done,
                   errors, faults>>
    /\ UNCHANGED sideVars

\* what a failed result of the flair scan leaves in the open transaction
FlairPartial(s, k, r) ==
    /\ db' = IF k = -1 THEN db ELSE r.db
    /\ enqLog' = IF k = -1 THEN enqLog ELSE enqLog \cup r.log
    /\ insLog' = IF k = -1 THEN insLog
                 ELSE insLog \cup {<<HasPost(db.posts, s), r.inserted>>}

\* a result of the flair scan raises: the search or the fetch (k = -1, nothing
\* written), the store at its (k+1)-th URL, or the commit (k = number of
\* URLs).  Nothing catches it before main.
FlairItemFail ==
    /\ pc = "flairRes" /\ CanFail /\ ~deadline_reached
    /\ resIdx <= Len(FlairResults[flairIdx])
    /\ \E k \in -1..Len(UrlsOf(FlairResults[flairIdx][resIdx])) :
          FlairPartial(FlairResults[flairIdx][resIdx], k,
                       store_submission_and_discover(
                           db, FlairResults[flairIdx][resIdx], 0, k, runNo))
    /\ faults' = faults + 1
    /\ pc' = "fatal"
    /\ UNCHANGED <<argVars, expired, disk, flairVars, hubVars, crawlVars, mainVars,
                   fetchLog>>
    /\ UNCHANGED sideVars

\* update_run_stats after the flair scan, then "if not deadline_reached"
AfterFlair ==
    /\ pc = "afterFlair"
    /\ db' = [db EXCEPT !.run = update_run_stats(@, posts_inserted,
                                                  hubs_queued, queue_done, errors)]
    /\ disk' = db'
    /\ IF ~deadline_reached
       THEN pc' = "hub" /\ hubIdx' = 1 /\ hubRes' = 1 /\ added' = 0
       ELSE pc' = "crawlCheck" /\ UNCHANGED hubVars
    /\ UNCHANGED <<argVars, expired, flairVars, crawlVars, mainVars, faults, logVars>>
    /\ UNCHANGED sideVars

\* an update_run_stats in the try block raises
StatsFail ==
    /\ pc \in {"afterFlair", "afterHub", "crawlRet"} /\ CanFail
    /\ faults' = faults + 1
    /\ queue_done' = IF pc = "crawlRet" THEN done ELSE queue_done
    /\ errors' = IF pc = "crawlRet" THEN errors + crawl_errors ELSE errors
    /\ pc' = "fatal"
    /\ UNCHANGED <<argVars, expired, db, disk, flairVars, hubVars, crawlVars,
                   posts_inserted, hubs_queued, logVars>>
    /\ UNCHANGED sideVars


\* ------------------------------------------------------------ phase B
\* for q in HUB_QUERIES: the deadline test, then the search; after the last
\* query, and on break, the function returns added and main assigns hubs_queued
HubQuery ==
    /\ pc = "hub"
    /\ IF hubIdx > Len(HubResults) \/ deadline_reached
       THEN /\ hubs_queued' = added
            /\ pc' = "afterHub"
            /\ UNCHANGED hubRes
       ELSE /\ hubRes' = 1
            /\ pc' = "hubRes"
            /\ UNCHANGED hubs_queued
    /\ UNCHANGED <<argVars, expired, db, disk, flairVars, hubIdx, added, crawlVars,
                   posts_inserted, queue_done, errors, faults, logVars>>
    /\ UNCHANGED sideVars

\* one pass of the inner loop of discover_hub_posts
HubItem ==
    /\ pc = "hubRes"
    /\ LET res == HubResults[hubIdx] IN
       IF hubRes > Len(res)
       THEN /\ hubIdx' = hubIdx + 1
            /\ pc' = "hub"
            /\ UNCHANGED <<db, disk, hubRes, added, hubs_queued, enqLog>>
       ELSE IF deadline_reached
       THEN /\ hubs_queued' = added
            /\ pc' = "afterHub"
            /\ UNCHANGED <<db, disk, hubIdx, hubRes, added, enqLog>>
       ELSE LET s == res[hubRes] IN
            /\ db' = [db EXCEPT !.queue = queue_add(@, <<s>>, Permalink(s), 0, 1,
                                                   HUB_REPLY_DEPTH)]
            /\ disk' = db'
            /\ added' = added + 1
            /\ hubRes' = hubRes + 1
            /\ enqLog' = enqLog \cup {EnqEntry(db.queue, "hub", 0, <<s>>, 0, 1)}
            /\ UNCHANGED <<hubIdx, hubs_queued, pc>>
    /\ UNCHANGED <<argVars, expired, flairVars, crawlVars, posts_inserted, queue_done,
                   errors, faults, insLog, fetchLog>>
    /\ UNCHANGED sideVars

\* a result of hub discovery raises: before the queue_add (nothing written) or
\* at the commit (the row and added += 1 are there, uncommitted)
HubItemFail ==
    /\ pc = "hubRes" /\ CanFail /\ ~deadline_reached
    /\ hubRes <= Len(HubResults[hubIdx])
    /\ LET s == HubResults[hubIdx][hubRes] IN
       \E at \in {"fetch", "commit"} :
          IF at = "fetch"
          THEN UNCHANGED <<db, added, enqLog>>
          ELSE /\ db' = [db EXCEPT !.queue = queue_add(@, <<s>>, Permalink(s), 0, 1,
                                                      HUB_REPLY_DEPTH)]
               /\ added' = added + 1
               /\ enqLog' = enqLog \cup {EnqEntry(db.queue, "hub", 0, <<s>>, 0, 1)}
    /\ faults' = faults + 1
    /\ pc' = "fatal"
    /\ UNCHANGED <<argVars, expired, disk, flairVars, hubIdx, hubRes, crawlVars,
                   mainVars, insLog, fetchLog>>
    /\ UNCHANGED sideVars

\* update_run_stats after hub discovery
AfterHub ==
    /\ pc = "afterHub"
    /\ db' = [db EXCEPT !.run = update_run_stats(@, posts_inserted,
                                                  hubs_queued, queue_done, errors)]
    /\ disk' = db'
    /\ pc' = "crawlCheck"
    /\ UNCHANGED <<argVars, expired, flairVars, hubVars, crawlVars, mainVars, faults,
                   logVars>>
    /\ UNCHANGED sideVars

\* ------------------------------------------------------------ phase C
\* "if not deadline_reached(deadline_ts)" before crawl_queue, and its entry
CrawlCheck ==
    /\ pc = "crawlCheck"
    /\ IF ~deadline_reached
       THEN /\ pc' = "crawlTop"
            /\ done' = 0 /\ crawl_errors' = 0 /\ batch' = <<>>
            /\ crawlG' = [NoCrawl EXCEPT !.q0 = db.queue]
       ELSE /\ pc' = "finish"
            /\ UNCHANGED crawlVars
    /\ UNCHANGED <<argVars, expired, db, disk, flairVars, hubVars, mainVars, faults,
                   logVars>>
    /\ UNCHANGED sideVars

\* variant: the batch is popped before the deadline is looked at
CrawlTopPopFirst ==
    /\ pc = "crawlTop"
    /\ batch' = queue_pop_batch(db.queue, MAX_QUEUE_BATCH)
    /\ crawlG' = [crawlG EXCEPT
                     !.first = IF @ # "none" THEN @
                               ELSE IF deadline_reached THEN "reached" ELSE "open",
                     !.pops = IF @ < 1 THEN @ + 1 ELSE @,
                     !.stop = IF batch' = <<>> THEN "empty" ELSE @]
    /\ pc' = IF batch' = <<>> THEN "crawlRet" ELSE "crawlItem"
    /\ UNCHANGED <<argVars, expired, db, disk, flairVars, hubVars, done, crawl_errors,
                   mainVars, faults, logVars>>
    /\ UNCHANGED sideVars

\* the head of "while True": the deadline test, then queue_pop_batch
CrawlTop ==
    /\ pc = "crawlTop"
    /\ IF deadline_reached
       THEN /\ pc' = "crawlRet"
            /\ crawlG' = [crawlG EXCEPT !.first = IF @ = "none" THEN "reached" ELSE @,
                                        !.stop = "top"]
            /\ UNCHANGED batch
       ELSE LET b == queue_pop_batch(db.queue, MAX_QUEUE_BATCH) IN
            /\ batch' = b
            /\ crawlG' = [crawlG EXCEPT !.first = IF @ = "none" THEN "open" ELSE @,
                                        !.pops = IF @ < 1 THEN @ + 1 ELSE @,
                                        !.stop = IF b = <<>> THEN "empty" ELSE @]
            /\ pc' = IF b = <<>> THEN "crawlRet" ELSE "crawlItem"
    /\ UNCHANGED <<argVars, expired, db, disk, flairVars, hubVars, done, crawl_errors,
                   mainVars, faults, logVars>>
    /\ UNCHANGED sideVars

\* queue_pop_batch raises: nothing in crawl_queue catches it
PopFail ==
    /\ pc = "crawlTop" /\ CanFail /\ ~deadline_reached
    /\ faults' = faults + 1
    /\ pc' = "fatal"
    /\ UNCHANGED <<argVars, expired, db, disk, flairVars, hubVars, crawlVars, mainVars,
                   logVars>>
    /\ UNCHANGED sideVars

\* the submission an item resolves to:
\* sid = submission_id_from_url(url) or (key if re.fullmatch(...) else None)
SidOf(item) ==
    LET sid == submission_id_from_url(item.url)
    IN  IF sid # NoId THEN sid ELSE IF IsIdKey(item.key) THEN item.key[1] ELSE NoId

\* where the try block of an item can stop, and what it has written by then:
\*   "fetch"  the fetch raises, nothing written
\*   "store"  store_submission_and_discover raises at its (k+1)-th URL
\*   "expand" the comments of a hub cannot be read
\*   "mark"   queue_mark(con, key, "done") raises
\*   "commit" con.commit() raises, after done += 1
\*   "ok"     the block completes
Kinds == {"fetch", "store", "expand", "mark", "commit", "ok"}

TryStore(item, kind, k) ==
    store_submission_and_discover(
        db, SidOf(item), item.depth,
        IF kind = "store" THEN k ELSE Len(UrlsOf(SidOf(item))), runNo)

TryExpand(item, kind, q) ==
    IF ExpandsHub(item.is_hub, item.depth) /\ kind \in {"mark", "commit", "ok"}
    THEN ExpandLoop([queue |-> q, log |-> {}],
                    extract_reddit_links_from_best_comments(
                        SidOf(item), HUB_TOP_LEVEL_COMMENTS, item.max_comment_depth,
                        HUB_MAX_REPLIES_PER_TOP),
                    item.depth, 1)
    ELSE [queue |-> q, log |-> {}]

TryMark(item, kind, q) ==
    IF kind \in {"commit", "ok"} THEN queue_mark(q, item.key, "done", NoErr) ELSE q

TryResult(item, kind, part, ex) ==
    [db |-> [part.db EXCEPT !.queue = TryMark(item, kind, ex.queue)],
     log |-> part.log \cup ex.log,
     ins |-> {<<HasPost(db.posts, SidOf(item)), part.inserted>>},
     done |-> IF kind \in {"commit", "ok"} THEN done + 1 ELSE done]

TryAfterStore(item, kind, part) ==
    TryResult(item, kind, part, TryExpand(item, kind, part.db.queue))

TryBody(item, kind, k) ==
    IF kind = "fetch"
    THEN [db |-> db, log |-> {}, ins |-> {}, done |-> done]
    ELSE TryAfterStore(item, kind, TryStore(item, kind, k))

\* the outcomes an item can have: a submission the source does not have can
\* only fail at the fetch
KindPossible(item, kind, k) ==
    LET s == SidOf(item) IN
    /\ s \notin Remote => kind = "fetch"
    /\ kind = "store" => k < Len(UrlsOf(s))
    /\ kind # "store" => k = 0
    /\ kind = "expand" => ExpandsHub(item.is_hub, item.depth)

\* what an injected failure costs: a fetch of a missing submission fails by itself
Cost(item, kind) ==
    IF kind = "ok" \/ (kind = "fetch" /\ SidOf(item) \notin Remote) THEN 0 ELSE 1

ErrLen(kind) == IF kind = "fetch" THEN FetchErrLen ELSE StoreErrLen

MaxUrls == 2

Noted(item) ==
    [crawlG EXCEPT !.fetched = IF @ < 1 THEN @ + 1 ELSE @]

\* the except clause succeeds: queue_mark(con, key, "error", err=str(e)[:500])
Handled(q, item, kind) ==
    IF kind = "ok" THEN q
    ELSE queue_mark(q, item.key, "error", Truncate(ErrLen(kind)))

\* the state after one item whose try block went as t says
ItemDone(item, kind, t) ==
    /\ db' = [t.db EXCEPT !.queue = Handled(@, item, kind)]
    /\ disk' = db'
    /\ done' = t.done
    /\ crawl_errors' = IF kind = "ok" THEN crawl_errors ELSE crawl_errors + 1
    /\ batch' = Tail(batch)
    /\ enqLog' = enqLog \cup t.log
    /\ insLog' = insLog \cup t.ins
    /\ fetchLog' = fetchLog \cup {RowOf(db.queue, item.key).status}
    /\ crawlG' = Noted(item)
    /\ faults' = faults + Cost(item, kind)

\* one pass of "for key, url, depth, is_hub, max_comment_depth in batch":
\* the end of the batch, the deadline test, or an item processed; the except
\* clause marks a failed item and commits
CrawlItem ==
    /\ pc = "crawlItem"
    /\ IF batch = <<>>
       THEN /\ pc' = "crawlTop"
            /\ UNCHANGED <<db, disk, crawlVars, faults, logVars>>
       ELSE IF deadline_reached
       THEN /\ pc' = "crawlRet"
            /\ crawlG' = [crawlG EXCEPT !.stop = "item"]
            /\ UNCHANGED <<db, disk, batch, done, crawl_errors, faults, logVars>>
       ELSE \E kind \in Kinds, k \in 0..(MaxUrls - 1) :
               /\ KindPossible(Head(batch), kind, k)
               /\ faults + Cost(Head(batch), kind) <= MaxFaults
               /\ ItemDone(Head(batch), kind, TryBody(Head(batch), kind, k))
               /\ UNCHANGED pc
    /\ UNCHANGED <<argVars, expired, flairVars, hubVars, mainVars>>
    /\ UNCHANGED sideVars

\* the state after an item whose try block stopped as t says and whose
\* except clause raised at its queue_mark or at its commit
ItemFatal(item, kind, at, t) ==
    /\ db' = IF at = "mark" THEN t.db
             ELSE [t.db EXCEPT !.queue = Handled(@, item, kind)]
    /\ done' = t.done
    /\ crawl_errors' = crawl_errors + 1
    /\ enqLog' = enqLog \cup t.log
    /\ insLog' = insLog \cup t.ins
    /\ fetchLog' = fetchLog \cup {RowOf(db.queue, item.key).status}
    /\ crawlG' = Noted(item)
    /\ faults' = faults + Cost(item, kind) + 1

\* an item fails and the except clause fails too: its queue_mark raises (the
\* row keeps what the try block left) or its commit raises (the row is marked
\* error in the open transaction); the exception leaves crawl_queue
CrawlItemFatal ==
    /\ pc = "crawlItem" /\ batch # <<>> /\ ~deadline_reached
    /\ \E kind \in Kinds \ {"ok"}, k \in 0..(MaxUrls - 1), at \in {"mark", "commit"} :
          /\ KindPossible(Head(batch), kind, k)
          /\ faults + Cost(Head(batch), kind) + 1 <= MaxFaults
          /\ ItemFatal(Head(batch), kind, at, TryBody(Head(batch), kind, k))
    /\ pc' = "fatal"
    /\ UNCHANGED <<argVars, expired, disk, batch, flairVars, hubVars, mainVars>>
    /\ UNCHANGED sideVars

\* queue_done, crawl_errors = crawl_queue(...); errors += crawl_errors;
\* update_run_stats
CrawlReturn ==
    /\ pc = "crawlRet"
    /\ queue_done' = done
    /\ errors' = errors + crawl_errors
    /\ db' = [db EXCEPT !.run = update_run_stats(@, posts_inserted,
                                                  hubs_queued, done,
                                                  errors + crawl_errors)]
    /\ disk' = db'
    /\ pc' = "finish"
    /\ UNCHANGED <<argVars, expired, flairVars, hubVars, crawlVars, posts_inserted,
                   hubs_queued, faults, logVars>>
    /\ UNCHANGED sideVars

\* ------------------------------------------------------------ the end of main
\* end_run(con, run_id); con.close(); return 0
Finish ==
    /\ pc = "finish"
    /\ db' = [db EXCEPT !.run = end_run(@)]
    /\ disk' = db'
    /\ pc' = "exit0"
    /\ UNCHANGED <<argVars, expired, flairVars, hubVars, crawlVars, mainVars, faults,
                   logVars>>
    /\ UNCHANGED sideVars

\* end_run in the try block raises
FinishFail ==
    /\ pc = "finish" /\ CanFail
    /\ faults' = faults + 1
    /\ pc' = "fatal"
    /\ UNCHANGED <<argVars, expired, db, disk, flairVars, hubVars, crawlVars, mainVars,
                   logVars>>
    /\ UNCHANGED sideVars

\* except Exception: update_run_stats(..., errors + 1); end_run; close; return 1.
\* The commit of update_run_stats also commits what the failed phase left in
\* the open transaction.
Fatal ==
    /\ pc = "fatal"
    /\ db' = [db EXCEPT !.run = end_run(update_run_stats(@, posts_inserted,
                                                          hubs_queued, queue_done,
                                                          errors + 1))]
    /\ disk' = db'
    /\ pc' = "exit1"
    /\ UNCHANGED <<argVars, expired, flairVars, hubVars, crawlVars, mainVars, faults,
                   logVars>>
    /\ UNCHANGED sideVars

\* the except clause of main raises: in update_run_stats (the process ends
\* and the open transaction is rolled back) or in end_run (the statistics and
\* the pending writes are committed, the end instant is not)
FatalFail ==
    /\ pc = "fatal" /\ CanFail
    /\ \E at \in {"stats", "end"} :
          db' = IF at = "stats" THEN disk
                ELSE [db EXCEPT !.run = update_run_stats(@, posts_inserted,
                                                          hubs_queued, queue_done,
                                                          errors + 1)]
    /\ disk' = db'
    /\ faults' = faults + 1
    /\ pc' = "abort"
    /\ UNCHANGED <<argVars, expired, flairVars, hubVars, crawlVars, mainVars, logVars>>
    /\ UNCHANGED sideVars

\* the process is killed (or the machine stops) at any point of a run: what
\* the open transaction holds is rolled back, what was committed stays.  An
\* action of this model runs to its commit, so a kill inside it leaves on disk
\* what a kill before it leaves.
Crash ==
    /\ pc \notin {"idle", "exit0", "exit1", "abort", "crashed"}
    /\ crashes < MaxCrashes /\ CanFail
    /\ crashes' = crashes + 1
    /\ faults' = faults + 1
    /\ db' = disk
    /\ pc' = "crashed"
    /\ UNCHANGED <<argVars, expired, disk, flairVars, hubVars, crawlVars, mainVars,
                   logVars, urlVars>>

Next ==
    \/ Tick
    \/ BeginRun
    \/ ResetHubs
    \/ ResetHubsFail
    \/ FlairLabel
    \/ FlairItem
    \/ FlairItemFail
    \/ AfterFlair
    \/ StatsFail
    \/ HubQuery
    \/ HubItem
    \/ HubItemFail
    \/ AfterHub
    \/ CrawlCheck
    \/ CrawlTop
    \/ PopFail
    \/ CrawlItem
    \/ CrawlItemFatal
    \/ CrawlReturn
    \/ Finish
    \/ FinishFail
    \/ Fatal
    \/ FatalFail
    \/ Crash

Spec == Init /\ [][Next]_vars

TypeOK ==
    /\ pc \in {"idle", "recrawl", "flair", "flairRes", "afterFlair", "hub", "hubRes",
               "afterHub", "crawlCheck", "crawlTop", "crawlItem", "crawlRet",
               "finish", "fatal", "exit0", "exit1", "abort", "crashed"}
    /\ runNo \in 0..MaxRuns
    /\ faults \in 0..MaxFaults
    /\ crashes \in 0..MaxCrashes


\* ============================================================ properties
KeyUnique(q) == \A i, j \in DOMAIN q : q[i].key = q[j].key => i = j
PostUnique(ps) == \A i, j \in DOMAIN ps : ps[i].id = ps[j].id => i = j

\* the status of row i changes from q to q2 only as the frontier allows:
\* queued -> done, queued -> error, or the re-queue of a hub row
StatusMoveOk(q, q2, i) ==
    \/ q2[i].status = q[i].status
    \/ q[i].status = "queued" /\ q2[i].status \in {"done", "error"}
    \/ recrawl /\ q[i].is_hub = 1 /\ q2[i].status = "queued"

\* the columns queue_mark never writes
SameIdentity(r, r2) ==
    /\ r2.key = r.key /\ r2.url = r.url /\ r2.depth = r.depth
    /\ r2.is_hub = r.is_hub /\ r2.max_comment_depth = r.max_comment_depth

\* ------------------------------------------------------------ C1
\* C1: no queue row, in the connection's view or committed, has a depth above
\* MAX_CRAWL_DEPTH, and no queue_add made by link discovery in a post body or
\* by hub comment expansion comes from a source whose depth is MAX_CRAWL_DEPTH
\* or more.
C1_DepthBound ==
    /\ \A i \in DOMAIN db.queue : db.queue[i].depth <= MAX_CRAWL_DEPTH
    /\ \A i \in DOMAIN disk.queue : disk.queue[i].depth <= MAX_CRAWL_DEPTH
    /\ \A e \in enqLog : e.via \in {"body", "comment"} => e.srcDepth < MAX_CRAWL_DEPTH

\* an item at the bound, whose post links to a submission, has been crawled
C1_Witness ==
    \E i \in DOMAIN disk.queue :
        /\ disk.queue[i].depth = MAX_CRAWL_DEPTH
        /\ disk.queue[i].status = "done"
        /\ \E u \in BodyUrls(SidOf(disk.queue[i])) : is_reddit_submission_url(u)

\* ------------------------------------------------------------ C2
\* C2: in the committed queue a row's status changes only queued -> done or
\* queued -> error, unless the hub re-queue resets a hub row; and every item
\* the crawl fetches has status queued when it is fetched, so a done or error
\* item is not fetched again.
C2_Terminal ==
    /\ [](fetchLog \subseteq {"queued"})
    /\ [][\A i \in DOMAIN disk.queue :
            /\ i \in DOMAIN disk'.queue
            /\ disk'.queue[i].key = disk.queue[i].key
            /\ StatusMoveOk(disk.queue, disk'.queue, i)]_vars

\* a later run has crawled to the end of the queue, fetching a re-queued hub,
\* while a non-hub item finished by an earlier run is still done
C2_Witness ==
    /\ runNo = 2 /\ pc = "exit0" /\ crawlG.stop = "empty" /\ fetchLog # {}
    /\ \E i \in DOMAIN disk.queue :
          /\ disk.queue[i].is_hub = 0 /\ disk.queue[i].status = "done"
          /\ \E j \in DOMAIN disk.posts :
                /\ disk.posts[j].id = SidOf(disk.queue[i])
                /\ disk.posts[j].retrieved_at = 1

\* ------------------------------------------------------------ C3
\* C3: the queue never holds two rows with one key, and a queue_add of a key
\* that is already there writes nothing: every existing row keeps its key,
\* url, depth, hub flag and reply depth in every step, keeps its status too
\* in every step of the flair scan and of hub discovery, and in a crawl step
\* every row but the crawled item's own stays as it was.
C3_AddIsNoOp ==
    /\ [](KeyUnique(db.queue) /\ KeyUnique(disk.queue))
    /\ [][pc' \notin {"abort", "crashed"} =>
            \A i \in DOMAIN db.queue :
               /\ i \in DOMAIN db'.queue
               /\ SameIdentity(db.queue[i], db'.queue[i])
               /\ pc \in {"flairRes", "hubRes"} => db'.queue[i] = db.queue[i]
               /\ (pc = "crawlItem" /\ batch # <<>> /\ db.queue[i].key # Head(batch).key)
                     => db'.queue[i] = db.queue[i]]_vars

\* hub discovery has called queue_add for a key that was there with another
\* depth or hub flag
C3_Witness == \E e \in enqLog : e.via = "hub" /\ e.dup /\ e.diff

\* ------------------------------------------------------------ C4
\* C4: the posts table never holds two rows with one id; insert_post returns
\* inserted=true exactly when the id had no row at the call; and a stored row
\* is never changed or removed by a later ingestion.
C4_PostOnce ==
    /\ [](PostUnique(db.posts) /\ PostUnique(disk.posts))
    /\ [](\A e \in insLog : e[2] = ~e[1])
    /\ [][/\ \A i \in DOMAIN disk.posts :
               i \in DOMAIN disk'.posts /\ disk'.posts[i] = disk.posts[i]
          /\ pc' \notin {"abort", "crashed"} =>
               \A i \in DOMAIN db.posts :
                  i \in DOMAIN db'.posts /\ db'.posts[i] = db.posts[i]]_vars

\* the second run has ingested again a post the first run stored
C4_Witness ==
    /\ runNo = 2 /\ <<TRUE, FALSE>> \in insLog
    /\ \E i \in DOMAIN disk.posts : disk.posts[i].retrieved_at = 1

\* ------------------------------------------------------------ C5
\* C5: every item the crawl takes from its batch ends done or error (with a
\* message when error), the crawl goes on to the next item, and the error
\* count is the number of failed items.
C5_ErrorIsolation ==
    [][((pc = "crawlItem" /\ batch # <<>> /\ ~PastDeadline /\ batch' # batch)
        \/ (pc = "crawlItem" /\ pc' = "fatal")) =>
          /\ pc' = "crawlItem"
          /\ batch' = Tail(batch)
          /\ RowOf(disk'.queue, Head(batch).key).status \in {"done", "error"}
          /\ RowOf(disk'.queue, Head(batch).key).status = "error" =>
                /\ RowOf(disk'.queue, Head(batch).key).last_error # NoErr
                /\ crawl_errors' = crawl_errors + 1
          /\ RowOf(disk'.queue, Head(batch).key).status = "done" =>
                crawl_errors' = crawl_errors]_vars

\* ------------------------------------------------------------ C6
\* C6: whenever the process has ended after begin_run, the committed run row
\* has its end instant.
C6_EndAlwaysSet == Exited => disk.run.ended

\* ------------------------------------------------------------ C7
\* C7: when main ends through its except clause, the committed counters hold
\* the work done up to the failure: the posts the flair scan inserted, the
\* hubs hub discovery queued, the items the crawl finished and failed.
C7_CountsPersisted ==
    pc = "exit1" =>
        /\ disk.run.posts_inserted = inserted_count
        /\ disk.run.hubs_queued = added
        /\ disk.run.queue_done = done
        /\ disk.run.errors >= crawl_errors

\* ------------------------------------------------------------ C8
\* C8: a crawl_queue call whose first deadline test finds the deadline
\* reached pops no batch, fetches nothing, leaves every queue row as it was
\* and returns zero done and zero errors.
C8_DeadlineSafety ==
    crawlG.first = "reached" =>
        /\ crawlG.pops = 0 /\ crawlG.fetched = 0
        /\ db.queue = crawlG.q0 /\ disk.queue = crawlG.q0
        /\ done = 0 /\ crawl_errors = 0
        /\ pc \in {"finish", "exit0"} => queue_done = 0 /\ errors = 0

\* such a crawl has returned with queued items left in the frontier
C8_Witness ==
    /\ crawlG.first = "reached" /\ pc = "exit0"
    /\ \E i \in DOMAIN disk.queue : disk.queue[i].status = "queued"

\* ------------------------------------------------------------ C9
\* no table row is written and no label, result, query, batch or item is begun
NoNewWork ==
    /\ db'.posts = db.posts /\ db'.links = db.links /\ db'.queue = db.queue
    /\ resIdx' = resIdx /\ hubRes' = hubRes /\ batch' = batch
    /\ added' = added /\ inserted_count' = inserted_count
    /\ done' = done /\ crawl_errors' = crawl_errors
    /\ pc' \in {"flairRes", "hubRes", "crawlItem"} => pc' = pc

\* C9: past the deadline no phase begins a label, a search result, a hub
\* query, a batch or a queue item; when the crawl stops inside a batch the
\* items it has not reached are still queued; and no committed post or queue
\* row is lost after the deadline.
C9_DeadlineKeepsState ==
    /\ [][(PastDeadline /\ pc \in {"flair", "flairRes", "hub", "hubRes", "crawlCheck",
                                   "crawlTop", "crawlItem"}) => NoNewWork]_vars
    /\ [](crawlG.stop = "item" =>
            \A i \in DOMAIN batch :
               /\ HasKey(disk.queue, batch[i].key)
               /\ RowOf(disk.queue, batch[i].key).status = "queued")
    /\ [][PastDeadline =>
            /\ \A i \in DOMAIN disk.posts :
                  i \in DOMAIN disk'.posts /\ disk'.posts[i] = disk.posts[i]
            /\ \A i \in DOMAIN disk.queue :
                  /\ i \in DOMAIN disk'.queue
                  /\ SameIdentity(disk.queue[i], disk'.queue[i])
                  /\ StatusMoveOk(disk.queue, disk'.queue, i)]_vars

\* the crawl stopped at the deadline inside a batch, after one item of it
C9_Witness ==
    /\ crawlG.stop = "item" /\ pc = "exit0"
    /\ crawlG.fetched > 0 /\ batch # <<>>
    /\ Len(batch) < MAX_QUEUE_BATCH

\* ------------------------------------------------------------ C10
\* the result hub discovery has just processed
LastHubResult == HubResults[hubIdx][hubRes - 1]

\* C10 as claimed: after a search result is processed the frontier row of
\* its submission is a hub row of depth 0 with the configured reply depth.
C10_HubRowAlways ==
    (pc = "hubRes" /\ hubRes > 1) =>
        /\ HasKey(db.queue, <<LastHubResult>>)
        /\ RowOf(db.queue, <<LastHubResult>>).is_hub = 1
        /\ RowOf(db.queue, <<LastHubResult>>).depth = 0
        /\ RowOf(db.queue, <<LastHubResult>>).max_comment_depth = HUB_REPLY_DEPTH

\* C10 amended: after a search result is processed the frontier holds one row
\* with the submission's id as key; if no row had that key before, it is a
\* queued hub row of depth 0 with the configured reply depth; if one had, it
\* is that row, unchanged.
C10_HubRowIfNew ==
    [][(pc = "hubRes" /\ hubRes' = hubRes + 1) =>
          /\ HasKey(db'.queue, <<HubResults[hubIdx][hubRes]>>)
          /\ KeyUnique(db'.queue)
          /\ RowOf(db'.queue, <<HubResults[hubIdx][hubRes]>>) =
                IF HasKey(db.queue, <<HubResults[hubIdx][hubRes]>>)
                THEN RowOf(db.queue, <<HubResults[hubIdx][hubRes]>>)
                ELSE QueueRow(<<HubResults[hubIdx][hubRes]>>,
                              Permalink(HubResults[hubIdx][hubRes]), 0, 1,
                              HUB_REPLY_DEPTH)]_vars

\* a processed search result whose row stays a non-hub row of depth 1
C10_Witness ==
    /\ pc = "hubRes" /\ hubRes > 1
    /\ HasKey(db.queue, <<LastHubResult>>)
    /\ RowOf(db.queue, <<LastHubResult>>).is_hub = 0
    /\ RowOf(db.queue, <<LastHubResult>>).depth = 1

\* ------------------------------------------------------------ C11
\* the URLs read in the first top_n top-level comments of s and in the replies
\* of each that are read
RECURSIVE CommentUrls(_, _, _)
CommentUrls(cs, reply_depth, max_replies_per_top) ==
    IF cs = <<>> THEN {}
    ELSE Head(cs).body \cup
         (IF reply_depth >= 1
          THEN UnionSeq(Take(Take(Head(cs).replies, max_replies_per_top), Head(cs).readable))
          ELSE {}) \cup
         CommentUrls(Tail(cs), reply_depth, max_replies_per_top)

\* a link to a submission of the platform: the host is the primary or the
\* short domain and the URL carries a submission id in the long or in the
\* short-link shape
LinksSubmission(u) ==
    /\ HasRedditCom(Netloc(u)) \/ HasReddIt(Netloc(u))
    /\ submission_id_from_url(u) # NoId

\* the keys of the submission links found in the comments of a hub item
FoundKeys(item) ==
    {KeyOf(normalize_reddit_url(u)) :
        u \in {v \in CommentUrls(Take(CommentsOf(SidOf(item)), HUB_TOP_LEVEL_COMMENTS),
                                 item.max_comment_depth, HUB_MAX_REPLIES_PER_TOP) :
                  LinksSubmission(v)}}

\* the keys the links of the post itself (title, body, url) resolve to
BodyKeys(item) ==
    {KeyOf(normalize_reddit_url(u)) : u \in BodyUrls(SidOf(item))}

\* a step of the crawl that processes the hub item at the head of the batch
\* and ends with the item done
HubItemDone ==
    /\ pc = "crawlItem" /\ batch # <<>> /\ batch' = Tail(batch)
    /\ Head(batch).is_hub = 1
    /\ RowOf(db'.queue, Head(batch).key).status = "done"

\* C11 as claimed: when the crawl processes a hub item of depth d with
\* success, every submission link found in its comments whose key was not in
\* the frontier is afterwards exactly one queued non-hub row of depth d+1, no
\* other row is created from the comments, and the hub item is done.
C11_HubExpansion ==
    [][HubItemDone =>
          /\ KeyUnique(db'.queue)
          /\ \A k \in FoundKeys(Head(batch)) :
                ~HasKey(db.queue, k) =>
                   /\ HasKey(db'.queue, k)
                   /\ RowOf(db'.queue, k).status = "queued"
                   /\ RowOf(db'.queue, k).is_hub = 0
                   /\ RowOf(db'.queue, k).depth = Head(batch).depth + 1
          /\ \A i \in DOMAIN db'.queue :
                ~HasKey(db.queue, db'.queue[i].key) =>
                   db'.queue[i].key \in FoundKeys(Head(batch)) \cup BodyKeys(Head(batch))
          /\ RowOf(disk'.queue, Head(batch).key).status = "done"]_vars

\* ------------------------------------------------------------ C12
LinkUnique(ls) == \A i, j \in DOMAIN ls : ls[i] = ls[j] => i = j

\* what the processing of a queue row writes is all in the tables d: the
\* post, its links and the rows of the links it discovers
ProcessedIn(d, row) ==
    /\ HasPost(d.posts, SidOf(row))
    /\ \A u \in BodyUrls(SidOf(row)) :
          /\ HasLink(d.links, SidOf(row), u)
          /\ (CanDiscover(row.depth) /\ is_reddit_submission_url(u))
                => HasKey(d.queue, KeyOf(normalize_reddit_url(u)))

\* C12: whenever the process may be killed, and after it was killed, the
\* committed frontier holds as queued every item of the batch the crawl has
\* not finished, a committed done status comes with everything the item's
\* processing writes, and no run, a run after a kill included, leaves two
\* post rows with one id, two link rows with one (post, url) or two queue
\* rows with one key.
C12_CrashSafe ==
    /\ pc \in {"crawlItem", "crashed"} =>
          \A i \in DOMAIN batch :
             /\ HasKey(disk.queue, batch[i].key)
             /\ RowOf(disk.queue, batch[i].key).status = "queued"
    /\ \A i \in DOMAIN disk.queue :
          disk.queue[i].status = "done" => ProcessedIn(disk, disk.queue[i])
    /\ pc = "crashed" => db = disk
    /\ KeyUnique(disk.queue) /\ PostUnique(disk.posts) /\ LinkUnique(disk.links)
    /\ KeyUnique(db.queue) /\ PostUnique(db.posts) /\ LinkUnique(db.links)

\* a run was killed, and the next run crawled the queue to its end and
\* ingested again a post the killed run had committed
C12_Witness ==
    /\ crashes = 1 /\ runNo = 2 /\ pc = "exit0"
    /\ crawlG.stop = "empty" /\ crawlG.fetched > 0
    /\ <<TRUE, FALSE>> \in insLog
    /\ \E i \in DOMAIN disk.posts : disk.posts[i].retrieved_at = 1

\* ------------------------------------------------------------ C13
\* C13: the step of main that runs queue_reset_hubs keeps the number and the
\* order of the queue rows and every row's key, url, depth, hub flag and
\* reply depth; afterwards every row with is_hub = 1 is queued, whatever its
\* status was, every row with is_hub = 0 is as it was, and the result is
\* committed.
C13_ResetHubsFrame ==
    [][(pc = "recrawl" /\ recrawl /\ pc' = "flair") =>
          /\ DOMAIN db'.queue = DOMAIN db.queue
          /\ disk'.queue = db'.queue
          /\ \A i \in DOMAIN db.queue :
                /\ SameIdentity(db.queue[i], db'.queue[i])
                /\ db.queue[i].is_hub = 1 => db'.queue[i].status = "queued"
                /\ db.queue[i].is_hub = 0 => db'.queue[i] = db.queue[i]]_vars

\* the flair scan of a run that began with the hub re-queue: a hub row that
\* an earlier run left in error is queued again, beside a non-hub row that is
\* still done
C13_Witness ==
    /\ pc = "flair" /\ recrawl /\ runNo = 2 /\ flairIdx = 1
    /\ \E i \in DOMAIN disk.queue :
          /\ disk.queue[i].is_hub = 1
          /\ disk.queue[i].status = "queued"
          /\ disk.queue[i].last_error # NoErr
    /\ \E i \in DOMAIN disk.queue :
          disk.queue[i].is_hub = 0 /\ disk.queue[i].status = "done"

\* ------------------------------------------------------------ C14
\* runs without --max-minutes: main() begins with deadline_ts = None
BeginRunNoDeadline == BeginRun /\ hasDeadline' = FALSE

LiveNext ==
    \/ BeginRunNoDeadline
    \/ ResetHubs
    \/ ResetHubsFail
    \/ FlairLabel
    \/ FlairItem
    \/ FlairItemFail
    \/ AfterFlair
    \/ StatsFail
    \/ HubQuery
    \/ HubItem
    \/ HubItemFail
    \/ AfterHub
    \/ CrawlCheck
    \/ CrawlTop
    \/ PopFail
    \/ CrawlItem
    \/ CrawlItemFatal
    \/ CrawlReturn
    \/ Finish
    \/ FinishFail
    \/ Fatal
    \/ FatalFail
    \/ Crash

\* ENABLED <<CrawlItem>>_vars: the for loop stands at an item, or at the end of
\* its batch, and has a way on
CrawlItemEnabled ==
    /\ pc = "crawlItem"
    /\ \/ batch = <<>>
       \/ deadline_reached
       \/ \E kind \in Kinds, k \in 0..(MaxUrls - 1) :
             /\ KindPossible(Head(batch), kind, k)
             /\ faults + Cost(Head(batch), kind) <= MaxFaults

\* WF_vars(CrawlItem), with its ENABLED written as the state predicate above
CrawlItemFair == []<>(~CrawlItemEnabled) \/ []<><<CrawlItem>>_vars

\* crawl_queue is one thread that nothing suspends: while its while loop or
\* its for loop can take a step, the step is taken
LiveSpec == Init /\ [][LiveNext]_vars /\ WF_vars(CrawlTop) /\ CrawlItemFair

InCrawl == pc \in {"crawlTop", "crawlItem"}

NoneQueued(q) == \A i \in DOMAIN q : q[i].status \in {"done", "error"}

\* C14: in a run without a deadline, over the finite (and cyclically linked)
\* set of submissions, a crawl that has begun always ends, and when
\* crawl_queue returns, every row of the frontier is done or error.
C14_CrawlTerminates ==
    /\ InCrawl ~> ~InCrawl
    /\ [](pc = "crawlRet" => NoneQueued(db.queue))
    /\ [](pc \in {"finish", "exit0"} => NoneQueued(disk.queue))

\* a crawl without deadline returned after it crawled round the cycle of
\* links aaaa1 -> aaaa2 -> aaaa3 -> aaaa1 and finished the item of depth 3
C14_Witness ==
    /\ ~hasDeadline /\ pc = "crawlRet" /\ crawlG.stop = "empty"
    /\ \E i \in DOMAIN db.queue :
          db.queue[i].depth = MAX_CRAWL_DEPTH /\ db.queue[i].status = "done"

\* ------------------------------------------------------------ C15
\* the flair scan examines a result: the store branch of its inner loop
FlairExamines ==
    /\ FlairItem
    /\ resIdx <= Len(FlairResults[flairIdx])
    /\ ~deadline_reached

\* the posts of label l's result stream are all stored
AllStored(posts, l) ==
    \A i \in DOMAIN FlairResults[l] : HasPost(posts, FlairResults[l][i])

\* what one examined result s does to the streak, and when the label is left
StreakStep(s) ==
    /\ HasPost(db.posts, s) => dup_streak' = dup_streak + 1
    /\ ~HasPost(db.posts, s) => dup_streak' = 0 /\ HasPost(db'.posts, s)
    /\ pc' = "flair" <=> dup_streak' >= STOP_DUP_STREAK
    /\ pc' = "flair" => flairIdx' = flairIdx + 1 /\ resIdx' = resIdx
    /\ pc' # "flair" => pc' = "flairRes" /\ resIdx' = resIdx + 1

\* C15: on a result stream of already-stored posts, at least STOP_DUP_STREAK
\* long, the flair scan of that label counts every result into the streak and
\* leaves the label with the STOP_DUP_STREAK-th result, examining no further
\* one; a newly inserted post sets the streak to zero.
C15_DupStreak ==
    [][FlairExamines =>
          /\ StreakStep(FlairResults[flairIdx][resIdx])
          /\ (AllStored(db.posts, flairIdx) /\ dup_streak = resIdx - 1
               /\ Len(FlairResults[flairIdx]) >= STOP_DUP_STREAK)
              => /\ resIdx <= STOP_DUP_STREAK
                 /\ dup_streak' = resIdx
                 /\ pc' = "flair" <=> resIdx = STOP_DUP_STREAK]_vars

\* a second run left the first label after STOP_DUP_STREAK results, all of
\* them stored by the first run, with a further result of the stream unread
C15_Witness ==
    /\ pc = "flair" /\ runNo = 2 /\ flairIdx = 2 /\ inserted_count = 0
    /\ dup_streak = STOP_DUP_STREAK /\ resIdx = STOP_DUP_STREAK
    /\ resIdx < Len(FlairResults[1])
    /\ AllStored(db.posts, 1)

\* ------------------------------------------------------------ C16
\* the textual renderings of a link to submission s: either scheme, the
\* canonical, legacy or bare domain with the long /comments/ form, and the
\* short-link form
LongHosts == {"www.reddit.com", "old.reddit.com", "reddit.com"}

Renderings(s) ==
    {<<sch, host, "/comments/", s>> : sch \in Schemes, host \in LongHosts}
    \cup {<<sch, "redd.it", "/", s>> : sch \in Schemes}

\* the form hub discovery seeds: the platform id itself
HubForm(s) == <<s>>

\* an empty frontier and a submission, given by its id, whose renderings are
\* going to be enqueued
KeyInit ==
    /\ ProgInit
    /\ urlIn \in {HubForm(s) : s \in {"aaaa1", "hubb1"}}
    /\ urlOut = <<>> /\ urlQ = <<>> /\ urlSeen = {}

\* a post processed at depth d has the rendering r among its URLs: the loop
\* of store_submission_and_discover over that one URL
DiscoverRendering ==
    \E r \in Renderings(urlIn[1]), d \in 0..(MAX_CRAWL_DEPTH - 1) :
       /\ urlQ' = DiscoverLoop([links |-> <<>>, queue |-> urlQ, log |-> {}],
                               "aaaa2", <<r>>, d, 1, 1).queue
       /\ urlSeen' = urlSeen \cup {r}
       /\ UNCHANGED <<urlIn, urlOut, progVars>>

\* hub discovery finds the submission: queue_add(con, s.id, permalink, 0, 1, ...)
SeedHub ==
    /\ urlQ' = queue_add(urlQ, HubForm(urlIn[1]), Permalink(urlIn[1]), 0, 1,
                         HUB_REPLY_DEPTH)
    /\ urlSeen' = urlSeen \cup {HubForm(urlIn[1])}
    /\ UNCHANGED <<urlIn, urlOut, progVars>>

KeyNext == DiscoverRendering \/ SeedHub

KeySpec == KeyInit /\ [][KeyNext]_vars

\* C16 as claimed: all renderings of a link to one submission resolve to the
\* same dedup key, the id that hub discovery uses, and once any two of them
\* have been enqueued, in whatever order, the frontier holds exactly one item
\* for the submission.
C16_OneItem ==
    /\ \A r \in Renderings(urlIn[1]) :
          KeyOf(normalize_reddit_url(r)) = HubForm(urlIn[1])
    /\ Cardinality(urlSeen) >= 2 =>
          /\ Len(urlQ) = 1
          /\ urlQ[1].key = HubForm(urlIn[1])

\* ------------------------------------------------------------ C17
\* the positions of the queued rows of q, and the j-th of them in the order
\* of insertion
QueuedAt(q) == {i \in DOMAIN q : q[i].status = "queued"}

NthQueued(q, j) == CHOOSE i \in QueuedAt(q) : Cardinality({x \in QueuedAt(q) : x < i}) = j - 1

\* the n oldest-added queued rows of q, oldest first
OldestQueued(q, n) ==
    [j \in 1..(IF Cardinality(QueuedAt(q)) < n THEN Cardinality(QueuedAt(q)) ELSE n)
        |-> q[NthQueued(q, j)]]

\* the head of the while loop pops a batch
CrawlPops == pc = "crawlTop" /\ ~deadline_reached /\ pc' \in {"crawlItem", "crawlRet"}

\* the for loop has processed an item of its batch
CrawlProcesses == pc = "crawlItem" /\ pc' = "crawlItem" /\ batch # <<>> /\ batch' # batch

PopOk ==
    /\ Len(batch') <= MAX_QUEUE_BATCH
    /\ \A j \in DOMAIN batch' : batch'[j].status = "queued"
    /\ batch' = OldestQueued(db.queue, MAX_QUEUE_BATCH)
    /\ db' = db /\ disk' = disk

\* the item processed is the first of the batch, the rest of the batch stays
\* as it was popped, and what the item enqueues comes after every row the
\* queue had
ProcessOk ==
    /\ batch' = Tail(batch)
    /\ RowOf(db.queue, Head(batch).key).status = "queued"
    /\ RowOf(db'.queue, Head(batch).key).status \in {"done", "error"}
    /\ Len(db'.queue) >= Len(db.queue)
    /\ \A i \in DOMAIN db.queue :
          db.queue[i].key # Head(batch).key => db'.queue[i] = db.queue[i]
    /\ \A j \in DOMAIN batch' : \E i \in DOMAIN db.queue : db.queue[i] = batch'[j]

\* C17: queue_pop_batch(limit) gives at most limit rows, all queued, the
\* oldest-added queued rows in the order of insertion with none of them
\* skipped, and changes no row; the crawl processes the rows of a batch in
\* that order, and a row enqueued meanwhile never enters the batch at hand.
C17_PopBatchFifo ==
    [][/\ CrawlPops => PopOk
       /\ CrawlProcesses => ProcessOk
       /\ (pc = "crawlItem" /\ pc' = "crawlItem") =>
             batch' = batch \/ (batch # <<>> /\ batch' = Tail(batch))]_vars

\* a full batch at hand, popped over a row that was no longer queued, while
\* the queue holds a queued row that is not in the batch
C17_Witness ==
    /\ pc = "crawlItem" /\ Len(batch) = MAX_QUEUE_BATCH
    /\ \E i \in DOMAIN db.queue :
          /\ db.queue[i].status = "queued"
          /\ \A j \in DOMAIN batch : batch[j].key # db.queue[i].key
    /\ \E i \in DOMAIN db.queue :
          /\ db.queue[i].status # "queued"
          /\ \E k \in DOMAIN db.queue : k > i /\ db.queue[k] = batch[1]

\* ------------------------------------------------------------ C18
\* the pieces a URL text is made of: white space, schemes, hosts, path
\* markers, an id
UrlTokens ==
    {" ", "http://", "https://", "old.reddit.com", "www.reddit.com", "reddit.com",
     "redd.it", "example.com", "/comments/", "/", "aaaa1"}

\* every text of at most MaxUrlLen pieces, the empty text included
UrlInputs == UNION {[1..n -> UrlTokens] : n \in 0..MaxUrlLen}

UrlInit ==
    /\ ProgInit
    /\ urlIn \in UrlInputs
    /\ urlOut = <<>> /\ urlQ = <<>> /\ urlSeen = {}

\* normalize_reddit_url applied to the input, then to its own result
NormalizeStep ==
    /\ Len(urlOut) < MaxApply
    /\ urlOut' = Append(urlOut, normalize_reddit_url(
                                    IF urlOut = <<>> THEN urlIn ELSE urlOut[Len(urlOut)]))
    /\ UNCHANGED <<urlIn, urlQ, urlSeen, progVars>>

UrlNext == NormalizeStep

UrlSpec == UrlInit /\ [][UrlNext]_vars

\* C18: normalize_reddit_url is idempotent: applied to its own result it
\* gives that result again, for every input text of the bounded set.
C18_Idempotent == \A i \in 2..Len(urlOut) : urlOut[i] = urlOut[i - 1]

\* an http link to the legacy subdomain with white space in front, which
\* the first application rewrote, normalized twice
C18_Witness ==
    /\ Len(urlOut) >= 2
    /\ Len(urlIn) >= 3 /\ urlIn[1] = " " /\ urlIn[2] = "http://"
    /\ urlIn[3] = "old.reddit.com"
    /\ urlOut[1] = <<"https://", "www.reddit.com">> \o SubSeq(urlIn, 4, Len(urlIn))

\* ------------------------------------------------------------ C19
\* the item-level errors of the run so far: the items whose except clause in
\* crawl_queue has run (no other phase catches an error per item)
ItemErrors == crawl_errors

\* C19 as claimed: a run that ended on a fatal error (exit signal 1) has left
\* a run record whose error counter is one more than the item-level errors
\* accumulated so far and whose end instant is set; a run whose phases all
\* completed (exit signal 0) has its end instant set, whatever number of
\* queue items ended in error.
C19_FatalCounted ==
    /\ pc = "exit1" => /\ disk.run.errors = ItemErrors + 1
                       /\ disk.run.ended
    /\ pc = "exit0" => /\ disk.run.errors = ItemErrors
                       /\ disk.run.ended

\* ------------------------------------------------------------ C20
\* the reading of the replies of top-level comment c raises before the last
\* reply that would be read
ReplyFails(c) == c.readable < Len(Take(c.replies, HUB_MAX_REPLIES_PER_TOP))

\* the keys of the links collected from comment c when its replies are
\* explored: those of its body and those of the replies read before the failure
CollectedKeys(c) ==
    {KeyOf(normalize_reddit_url(u)) :
        u \in {v \in c.body \cup
                       UNION {c.replies[j] : j \in {x \in DOMAIN c.replies :
                                                      /\ x <= c.readable
                                                      /\ x <= HUB_MAX_REPLIES_PER_TOP}} :
                  is_reddit_submission_url(v)}}

\* the top-level comments the expansion of a hub item looks at
TopComments(item) == Take(CommentsOf(SidOf(item)), HUB_TOP_LEVEL_COMMENTS)

\* the crawl processes a hub item with reply exploration, the reading of the
\* replies of one of its comments fails, and nothing else fails in the step
HubReplyFailure ==
    /\ CrawlProcesses
    /\ ExpandsHub(Head(batch).is_hub, Head(batch).depth)
    /\ Head(batch).max_comment_depth >= 1
    /\ \E i \in DOMAIN TopComments(Head(batch)) : ReplyFails(TopComments(Head(batch))[i])
    /\ faults' = faults

\* C20: a failure while the replies of one top-level comment are read does
\* not fail the hub item: the links collected from that comment before the
\* failure and the links of every other top-level comment are in the frontier
\* afterwards, and the hub item is done, not error.
C20_ReplyFailureTolerated ==
    [][HubReplyFailure =>
          /\ RowOf(disk'.queue, Head(batch).key).status = "done"
          /\ \A i \in DOMAIN TopComments(Head(batch)) :
                \A k \in CollectedKeys(TopComments(Head(batch))[i]) :
                   HasKey(disk'.queue, k)]_vars

\* hub hubb1 is done on disk: the replies of its first comment could not be
\* read at all, those of its second comment failed after the first reply,
\* and the frontier holds aaaa3 (body of the first comment) and aaaa5 (the
\* reply read before the failure)
C20_Witness ==
    /\ HasKey(disk.queue, <<"hubb1">>)
    /\ RowOf(disk.queue, <<"hubb1">>).status = "done"
    /\ RowOf(disk.queue, <<"hubb1">>).is_hub = 1
    /\ \A i \in DOMAIN CommentsOf("hubb1") : ReplyFails(CommentsOf("hubb1")[i])
    /\ CollectedKeys(CommentsOf("hubb1")[2]) # {}
    /\ HasKey(disk.queue, <<"aaaa3">>) /\ HasKey(disk.queue, <<"aaaa5">>)
    /\ RowOf(disk.queue, <<"aaaa5">>).depth = 1

\* ------------------------------------------------------------ C21
\* a hub row has depth 0 and a row that is no hub has depth 1 or more
HubShape(q) ==
    \A i \in DOMAIN q :
       /\ q[i].is_hub = 1 => q[i].depth = 0
       /\ q[i].is_hub = 0 => q[i].depth >= 1

\* the rows of q2 whose key q does not have
NewRows(q, q2) == {i \in DOMAIN q2 : ~HasKey(q, q2[i].key)}

\* C21: every frontier row flagged as a hub has depth 0; a row is created as
\* a hub only by hub discovery, and every row created by link discovery or
\* by hub comment expansion is no hub and has depth 1 or more; the rows
\* created while a hub item is expanded have depth 1.
C21_HubDepth ==
    [][/\ HubShape(db'.queue) /\ HubShape(disk'.queue)
       /\ \A i \in NewRows(db.queue, db'.queue) :
             IF pc = "hubRes"
             THEN db'.queue[i].is_hub = 1 /\ db'.queue[i].depth = 0
             ELSE db'.queue[i].is_hub = 0 /\ db'.queue[i].depth >= 1
       /\ (pc = "crawlItem" /\ batch # <<>> /\ Head(batch).is_hub = 1) =>
             \A i \in NewRows(db.queue, db'.queue) : db'.queue[i].depth = 1]_vars

\* the frontier after a hub was expanded: the hub row has depth 0, a row from
\* one of its comments has depth 1, and link discovery has gone on to depth 2
C21_Witness ==
    /\ \E i \in DOMAIN db.queue :
          db.queue[i].is_hub = 1 /\ db.queue[i].depth = 0 /\ db.queue[i].status = "done"
    /\ \E e \in enqLog : e.via = "comment" /\ ~e.dup
    /\ \E i \in DOMAIN db.queue : db.queue[i].is_hub = 0 /\ db.queue[i].depth = 1
    /\ \E i \in DOMAIN db.queue : db.queue[i].is_hub = 0 /\ db.queue[i].depth >= 2

\* ------------------------------------------------------------ C22
\* a row of q carries a last-error message only while its status is error
ErrorOnlyOnError(q) ==
    \A i \in DOMAIN q : q[i].last_error # NoErr => q[i].status = "error"

\* C22 as claimed: in every state, also after the hub re-queue, every frontier
\* row whose status is queued or done has no last-error message, in the
\* connection's view and in the committed table.
C22_ErrorOnlyOnError == ErrorOnlyOnError(db.queue) /\ ErrorOnlyOnError(disk.queue)

\* ------------------------------------------------------------ C23
\* the Post rows created during the current run, by whatever phase: the rows
\* whose retrieval instant is that of this run (an ignored insert keeps the
\* instant of the run that created the row)
PostsCreated(d) == Cardinality({i \in DOMAIN d.posts : d.posts[i].retrieved_at = runNo})

\* the frontier rows that went from queued to done during the current run:
\* done now, and queued (or not yet there) when crawl_queue was entered
DoneInRun(d) ==
    IF crawlG.first = "none" THEN 0
    ELSE Cardinality({i \in DOMAIN d.queue :
                        /\ d.queue[i].status = "done"
                        /\ i <= Len(crawlG.q0) => crawlG.q0[i].status = "queued"})

\* C23 as claimed: when a run has completed normally, the posts_inserted of
\* its run record is the number of Post rows the run created in all its
\* phases, and its queue_done is the number of frontier rows that went from
\* queued to done during the run.
C23_RunCounters ==
    pc = "exit0" =>
       /\ disk.run.posts_inserted = PostsCreated(disk)
       /\ disk.run.queue_done = DoneInRun(disk)

====
